---------------------------- MODULE Spec2Model ----------------------------
(***************************************************************************)
(* Model of src/app.py: the conversion of an EGOV weekly schedule table    *)
(* into a Google-calendar CSV.                                             *)
(*                                                                         *)
(* Representation.                                                         *)
(*   - A calendar date is its proleptic Gregorian ordinal (day 1 is        *)
(*     0001-01-01, a Monday), as datetime.date.toordinal() gives it.       *)
(*     Adding timedelta(days = n) adds n to the ordinal.                   *)
(*   - A str is a sequence: of one-character strings for ASCII text (week  *)
(*     patterns, formatted dates), of Unicode code points for course       *)
(*     titles, so that the two marker substrings of lines 227-228 are the  *)
(*     source's own characters.                                            *)
(*   - A cell of the column 'Ngay bat dau' is [type |-> "Timestamp",       *)
(*     ord |-> n] when the reader parsed a date and [type |-> "str"]       *)
(*     when it left text in the cell (read_csv never parses dates).        *)
(*   - A DataFrame is the sequence of its rows; a row is a record; the     *)
(*     field idx is the row's index label, which pandas keeps when rows    *)
(*     are filtered.                                                       *)
(*   - An uncaught exception ends the script: pc = "failed", err names it. *)
(* The descriptive columns that no modelled computation reads (Ma lop hoc  *)
(* phan, Nhom, Lop, Si so, Tiet hoc, Ten phong, and the Subject, Location  *)
(* and Description built from them) are not carried.                       *)
(***************************************************************************)
EXTENDS Integers, Sequences, FiniteSets, TLC

VARIABLES
    pc,             \* position of the script
    df,             \* st.session_state.df: the uploaded table
    my_list_2,      \* df plus the columns active_weeks and class_dates
    row_i,          \* expansion loop: position of the current row (line 201)
    date_j,         \* expansion loop: position in row['class_dates'] (line 203)
    schedule_data,  \* the list of new_row dictionaries (line 198)
    my_schedule,    \* pd.DataFrame(schedule_data) and its added columns
    my_google,      \* the calendar frame
    today,          \* datetime.now().date() (line 253); 0 before it is read
    csv,            \* the rows my_google.to_csv writes (line 264)
    err,            \* the uncaught exception, "none" while there is none
    arg,            \* argument record of a helper called on its own
    ret             \* what that helper returned

vars == <<pc, df, my_list_2, row_i, date_j, schedule_data, my_schedule,
          my_google, today, csv, err, arg, ret>>

---------------------------------------------------------------------------
(* Bounds of the model. *)

\* longest week pattern given to the helpers called on their own
MaxPatLen == 3
\* the helpers' anchor dates are AnchorStart .. AnchorStart + AnchorSpan
AnchorSpan == 6
\* most rows of an uploaded table
MaxRecords == 2

---------------------------------------------------------------------------
(* Sequences. *)

Range(s) == {s[k] : k \in DOMAIN s}

\* all sequences over S of length 0 .. n
SeqsUpTo(S, n) == UNION {[1..k -> S] : k \in 0..n}

\* str.contains(sub) for a pattern without regular-expression metacharacters
Contains(s, sub) ==
    \E k \in 0..(Len(s) - Len(sub)) : SubSeq(s, k + 1, k + Len(sub)) = sub

---------------------------------------------------------------------------
(* Calendar arithmetic of datetime / pandas Timestamp. *)

DAYS_IN_MONTH == <<31, 28, 31, 30, 31, 30, 31, 31, 30, 31, 30, 31>>

is_leap(year) == year % 4 = 0 /\ (year % 100 # 0 \/ year % 400 = 0)

days_in_month(year, month) ==
    IF month = 2 /\ is_leap(year) THEN 29 ELSE DAYS_IN_MONTH[month]

days_before_year(year) ==
    LET y == year - 1 IN y * 365 + (y \div 4) - (y \div 100) + (y \div 400)

RECURSIVE days_before_month(_, _)
days_before_month(year, month) ==
    IF month = 1 THEN 0
    ELSE days_before_month(year, month - 1) + days_in_month(year, month - 1)

\* date(year, month, day).toordinal()
ymd2ord(year, month, day) ==
    days_before_year(year) + days_before_month(year, month) + day

\* the year, month and day of an ordinal
ord2ymd(n) ==
    LET n0   == n - 1
        n400 == n0 \div 146097
        r400 == n0 % 146097
        n100 == r400 \div 36524
        r100 == r400 % 36524
        n4   == r100 \div 1461
        r4   == r100 % 1461
        n1   == r4 \div 365
        r1   == r4 % 365
        year == n400 * 400 + n100 * 100 + n4 * 4 + n1 + 1
    IN  IF n1 = 4 \/ n100 = 4
        THEN [y |-> year - 1, m |-> 12, d |-> 31]
        ELSE LET month == CHOOSE m \in 1..12 :
                              /\ days_before_month(year, m) <= r1
                              /\ r1 < days_before_month(year, m)
                                        + days_in_month(year, m)
             IN  [y |-> year, m |-> month,
                  d |-> r1 - days_before_month(year, month) + 1]

\* date.isoweekday(): Monday is 1, Sunday is 7
isoweekday(n) == ((n + 6) % 7) + 1

DigitChars == <<"0", "1", "2", "3", "4", "5", "6", "7", "8", "9">>

\* the decimal digits of n, zero-padded to width w ('%02d', '%04d')
RECURSIVE zfill(_, _)
zfill(n, w) ==
    IF w = 0 THEN <<>>
    ELSE Append(zfill(n \div 10, w - 1), DigitChars[(n % 10) + 1])

\* int() of a string of decimal digits
RECURSIVE atoi(_)
atoi(s) ==
    IF s = <<>> THEN 0
    ELSE 10 * atoi(SubSeq(s, 1, Len(s) - 1))
         + (CHOOSE v \in 0..9 : DigitChars[v + 1] = s[Len(s)])

\* Timestamp.strftime('%m/%d/%Y')
strftime_mdY(n) ==
    LET c == ord2ymd(n)
    IN  zfill(c.m, 2) \o <<"/">> \o zfill(c.d, 2) \o <<"/">> \o zfill(c.y, 4)

\* pd.to_datetime(text, format='%m/%d/%Y') followed by .dt.date
strptime_mdY(text) ==
    ymd2ord(atoi(SubSeq(text, 7, 10)), atoi(SubSeq(text, 1, 2)),
            atoi(SubSeq(text, 4, 5)))

\* str(date), which to_csv writes for a datetime.date object: '%Y-%m-%d'
isoformat(n) ==
    LET c == ord2ymd(n)
    IN  zfill(c.y, 4) \o <<"-">> \o zfill(c.m, 2) \o <<"-">> \o zfill(c.d, 2)

---------------------------------------------------------------------------
(* parse_week_pattern (lines 38-44). *)

\* char.isdigit()
isdigit(char) == char \in Range(DigitChars)

\* fault: the index itself as the week number
week_number_zero_based(i) == i

\* line 43: the week number of enumerate's index i
week_number(i) == i + 1

\* the for loop of lines 41-43 from index i on
RECURSIVE parse_loop(_, _, _)
parse_loop(week_pattern, i, active_weeks) ==
    IF i >= Len(week_pattern) THEN active_weeks
    ELSE parse_loop(week_pattern, i + 1,
                    IF isdigit(week_pattern[i + 1])
                    THEN Append(active_weeks, week_number(i))
                    ELSE active_weeks)

parse_week_pattern(week_pattern) == parse_loop(week_pattern, 0, <<>>)

---------------------------------------------------------------------------
(* get_dates_for_pattern (lines 47-90). *)

\* line 73: Monday is 2, Sunday is 8
start_day_of_week(start_date) ==
    IF isoweekday(start_date) # 7 THEN isoweekday(start_date) + 1 ELSE 8

\* fault: lines 75-76 left out
days_difference_no_wrap(day_of_week, start_dow) == day_of_week - start_dow

\* lines 74-76
days_difference(day_of_week, start_dow) ==
    IF day_of_week - start_dow < 0
    THEN day_of_week - start_dow + 7
    ELSE day_of_week - start_dow

\* line 77
adjusted_start_date(start_date, day_of_week) ==
    start_date + days_difference(day_of_week, start_day_of_week(start_date))

\* fault: timedelta(days=...) for timedelta(weeks=...)
date_of_week_in_days(adjusted, week_num, firstweek) ==
    adjusted + (week_num - firstweek)

\* line 88
date_of_week(adjusted, week_num, firstweek) ==
    adjusted + 7 * (week_num - firstweek)

\* The result is [exc, dates]: a cell that is not a date has no isoweekday
\* (line 73 raises before line 79 looks at active_weeks).
get_dates_for_pattern(start_date_str, day_of_week, active_weeks) ==
    IF start_date_str.type # "Timestamp"
    THEN [exc |-> "AttributeError", dates |-> <<>>]
    ELSE LET adjusted == adjusted_start_date(start_date_str.ord, day_of_week)
         IN  IF active_weeks = <<>>
             THEN [exc |-> "none", dates |-> <<>>]
             ELSE [exc |-> "none",
                   dates |-> [k \in 1..Len(active_weeks) |->
                       date_of_week(adjusted, active_weeks[k],
                                    active_weeks[1])]]

---------------------------------------------------------------------------
(* The timetables (lines 93-133). *)

lecture_array == <<
    <<"07:00", "07:45">>, <<"07:45", "08:30">>, <<"08:30", "09:15">>,
    <<"09:40", "10:25">>, <<"10:25", "11:10">>, <<"11:10", "11:55">>,
    <<"12:30", "13:15">>, <<"13:15", "14:00">>, <<"14:00", "14:45">>,
    <<"15:10", "15:55">>, <<"15:55", "16:40">>, <<"16:40", "17:25">>,
    <<"18:00", "18:45">>, <<"18:45", "19:30">>, <<"19:30", "20:15">>,
    <<"20:15", "21:00">>, <<"21:00", "21:45">> >>

practice_array == <<
    <<"07:00", "07:45">>, <<"07:45", "08:30">>, <<"08:30", "09:15">>,
    <<"09:15", "10:00">>, <<"10:00", "10:45">>, <<"10:45", "11:30">>,
    <<"12:30", "13:15">>, <<"13:15", "14:00">>, <<"14:00", "14:45">>,
    <<"14:45", "15:30">>, <<"15:30", "16:15">>, <<"16:15", "17:00">>,
    <<"18:00", "18:45">>, <<"18:45", "19:30">>, <<"19:30", "20:15">>,
    <<"20:15", "21:00">>, <<"21:00", "21:45">> >>

\* Python's list[k]: k counts from 0, a negative k counts from the end, and
\* any other k raises IndexError.
py_in_range(list, k) == -Len(list) <= k /\ k < Len(list)

py_getitem(list, k) == IF k >= 0 THEN list[k + 1] ELSE list[Len(list) + k + 1]


---------------------------------------------------------------------------
(* Classification and time lookup (lines 225-233). *)

\* 'Thực hành' (line 227) and 'Ứng dụng tin học' (line 228), as code points
MarkerThucHanh == <<84, 104, 7921, 99, 32, 104, 224, 110, 104>>

MarkerUngDung ==
    <<7912, 110, 103, 32, 100, 7909, 110, 103, 32, 116, 105, 110, 32, 104,
      7885, 99>>

\* fault: line 228 left out
is_practice_first_marker_only(title) ==
    IF Contains(title, MarkerThucHanh) THEN 1 ELSE 0

\* lines 226-228: IsPractice is 0, then 1 where the title holds a marker
is_practice(title) ==
    IF Contains(title, MarkerThucHanh) \/ Contains(title, MarkerUngDung)
    THEN 1 ELSE 0

\* the list the lambdas of lines 232-233 index
timetable(row) == IF row.IsPractice = 1 THEN practice_array ELSE lecture_array

\* line 232
start_time(row) == py_getitem(timetable(row), row.Tu_tiet - 1)[1]

\* line 233
end_time(row) == py_getitem(timetable(row), row.Den_tiet - 1)[2]

---------------------------------------------------------------------------
(* The inputs. *)

\* Characters of a week pattern: two digits and two placeholders.
PatternAlphabet == {"1", "9", "-", " "}

\* 2025-12-22, a Monday
AnchorStart == ymd2ord(2025, 12, 22)

Timestamp(n) == [type |-> "Timestamp", ord |-> n]

\* a cell the reader left as text
TextCell == [type |-> "str"]

WeekdayCodes == 2..8

\* 'TN Thực hành', 'Ứng dụng tin học', 'Hóa học', 'Thực hàn'
TitleTNThucHanh == <<84, 78, 32>> \o MarkerThucHanh

TitleHoaHoc == <<72, 243, 97, 32, 104, 7885, 99>>

TitleThucHan == SubSeq(MarkerThucHanh, 1, 8)

BaseRecord ==
    [Ten_mon_hoc |-> TitleHoaHoc, Thu |-> 3, Tu_tiet |-> 4, Den_tiet |-> 6,
     Tuan_hoc |-> <<"1", "-", "1">>, Ngay_bat_dau |-> Timestamp(AnchorStart)]

\* The rows of an uploaded table: the base row with one column varied at a
\* time.  Period 0 and period 18 lie outside the 17 slots of a timetable.
RecordSpace ==
    {BaseRecord}
    \cup {[BaseRecord EXCEPT !.Ten_mon_hoc = t] :
            t \in {TitleTNThucHanh, MarkerUngDung, TitleThucHan}}
    \cup {[BaseRecord EXCEPT !.Tu_tiet = p[1], !.Den_tiet = p[2]] :
            p \in {<<1, 3>>, <<7, 7>>, <<13, 17>>, <<0, 2>>, <<4, 18>>}}
    \cup {[BaseRecord EXCEPT !.Tuan_hoc = w] :
            w \in {<<>>, <<"-", "-">>, <<"-", "9">>, <<"1", "1", "1">>}}
    \cup {[BaseRecord EXCEPT !.Ngay_bat_dau = a] :
            a \in {Timestamp(AnchorStart + 2), TextCell}}
    \cup {[BaseRecord EXCEPT !.Thu = c] : c \in {2, 8}}

\* The dates datetime.now() may give: before every occurrence, on the second
\* occurrence of the base row, after every occurrence.
TodaySet == {ymd2ord(2025, 12, 1), ymd2ord(2026, 1, 6), ymd2ord(2026, 2, 1)}

---------------------------------------------------------------------------
(* The script from line 183 on, for an uploaded table df. *)

Init ==
    /\ pc = "parse_weeks"
    /\ \E n \in 1..MaxRecords : \E f \in [1..n -> RecordSpace] :
          df = [k \in 1..n |->
                  [STT |-> k, Ten_mon_hoc |-> f[k].Ten_mon_hoc,
                   Thu |-> f[k].Thu, Tu_tiet |-> f[k].Tu_tiet,
                   Den_tiet |-> f[k].Den_tiet, Tuan_hoc |-> f[k].Tuan_hoc,
                   Ngay_bat_dau |-> f[k].Ngay_bat_dau]]
    /\ my_list_2 = <<>>
    /\ row_i = 1
    /\ date_j = 1
    /\ schedule_data = <<>>
    /\ my_schedule = <<>>
    /\ my_google = <<>>
    /\ today = 0
    /\ csv = <<>>
    /\ err = "none"
    /\ arg = <<>>
    /\ ret = <<>>

\* lines 193-194
ApplyParse ==
    /\ pc = "parse_weeks"
    /\ my_list_2' = [k \in DOMAIN df |->
          [row |-> df[k], active_weeks |-> parse_week_pattern(df[k].Tuan_hoc),
           class_dates |-> <<>>]]
    /\ pc' = "project_dates"
    /\ UNCHANGED <<df, row_i, date_j, schedule_data, my_schedule, my_google,
                   today, csv, err, arg, ret>>

\* line 195: apply calls get_dates_for_pattern row by row; the first call
\* that raises ends the script
ApplyDates ==
    /\ pc = "project_dates"
    /\ LET res == [k \in DOMAIN my_list_2 |->
                     get_dates_for_pattern(my_list_2[k].row.Ngay_bat_dau,
                                           my_list_2[k].row.Thu,
                                           my_list_2[k].active_weeks)]
           bad == {k \in DOMAIN res : res[k].exc # "none"}
       IN  IF bad # {}
           THEN /\ pc' = "failed"
                /\ err' = res[CHOOSE k \in bad : \A m \in bad : k <= m].exc
                /\ UNCHANGED my_list_2
           ELSE /\ pc' = "expand"
                /\ my_list_2' = [k \in DOMAIN my_list_2 |->
                      [my_list_2[k] EXCEPT !.class_dates = res[k].dates]]
                /\ UNCHANGED err
    /\ UNCHANGED <<df, row_i, date_j, schedule_data, my_schedule, my_google,
                   today, csv, arg, ret>>

\* lines 205-218
new_row(row, class_date) ==
    [STT |-> row.STT, Ten_mon_hoc |-> row.Ten_mon_hoc, Thu |-> row.Thu,
     Tu_tiet |-> row.Tu_tiet, Den_tiet |-> row.Den_tiet, Ngay |-> class_date]

\* fault: insert(0, new_row) for append(new_row)
append_row_in_front(list, row) == <<row>> \o list

\* line 220
append_row(list, row) == Append(list, row)

\* lines 203-220: one pass of the inner loop
ExpandAppend ==
    /\ pc = "expand"
    /\ row_i <= Len(my_list_2)
    /\ date_j <= Len(my_list_2[row_i].class_dates)
    /\ schedule_data' =
          append_row(schedule_data,
                     new_row(my_list_2[row_i].row,
                             my_list_2[row_i].class_dates[date_j]))
    /\ date_j' = date_j + 1
    /\ UNCHANGED <<pc, df, my_list_2, row_i, my_schedule, my_google, today,
                   csv, err, arg, ret>>

\* line 201: the inner loop is exhausted, iterrows gives the next row
ExpandNextRow ==
    /\ pc = "expand"
    /\ row_i <= Len(my_list_2)
    /\ date_j > Len(my_list_2[row_i].class_dates)
    /\ row_i' = row_i + 1
    /\ date_j' = 1
    /\ UNCHANGED <<pc, df, my_list_2, schedule_data, my_schedule, my_google,
                   today, csv, err, arg, ret>>

\* lines 223-228.  pd.DataFrame([]) has no columns: line 226 adds IsPractice
\* to it and line 227 raises KeyError for 'Ten mon hoc'.
BuildSchedule ==
    /\ pc = "expand"
    /\ row_i > Len(my_list_2)
    /\ IF schedule_data = <<>>
       THEN /\ pc' = "failed"
            /\ err' = "KeyError"
            /\ UNCHANGED my_schedule
       ELSE /\ pc' = "times"
            /\ my_schedule' = [k \in DOMAIN schedule_data |->
                  [idx |-> k - 1, STT |-> schedule_data[k].STT,
                   Ten_mon_hoc |-> schedule_data[k].Ten_mon_hoc,
                   Thu |-> schedule_data[k].Thu,
                   Tu_tiet |-> schedule_data[k].Tu_tiet,
                   Den_tiet |-> schedule_data[k].Den_tiet,
                   Ngay |-> schedule_data[k].Ngay,
                   IsPractice |-> is_practice(schedule_data[k].Ten_mon_hoc),
                   Start_time |-> "", End_time |-> ""]]
            /\ UNCHANGED err
    /\ UNCHANGED <<df, my_list_2, row_i, date_j, schedule_data, my_google,
                   today, csv, arg, ret>>

\* lines 232-233: an index outside the list raises IndexError
LookupTimes ==
    /\ pc = "times"
    /\ IF \E k \in DOMAIN my_schedule :
             \/ ~py_in_range(timetable(my_schedule[k]),
                             my_schedule[k].Tu_tiet - 1)
             \/ ~py_in_range(timetable(my_schedule[k]),
                             my_schedule[k].Den_tiet - 1)
       THEN /\ pc' = "failed"
            /\ err' = "IndexError"
            /\ UNCHANGED my_schedule
       ELSE /\ pc' = "google"
            /\ my_schedule' = [k \in DOMAIN my_schedule |->
                  [my_schedule[k] EXCEPT
                      !.Start_time = start_time(my_schedule[k]),
                      !.End_time = end_time(my_schedule[k])]]
            /\ UNCHANGED err
    /\ UNCHANGED <<df, my_list_2, row_i, date_j, schedule_data, my_google,
                   today, csv, arg, ret>>

\* lines 236-250: End Date is assigned the Start Date column (line 245)
BuildGoogle ==
    /\ pc = "google"
    /\ my_google' = [k \in DOMAIN my_schedule |->
          LET text == strftime_mdY(my_schedule[k].Ngay)
          IN  [idx |-> my_schedule[k].idx,
               Start_Date |-> [type |-> "str", text |-> text],
               Start_Time |-> my_schedule[k].Start_time,
               End_Date |-> [type |-> "str", text |-> text],
               End_Time |-> my_schedule[k].End_time]]
    /\ pc' = "filter"
    /\ UNCHANGED <<df, my_list_2, row_i, date_j, schedule_data, my_schedule,
                   today, csv, err, arg, ret>>

\* fault: > for >=
keep_row_after_today(start_date, today_) == start_date > today_

\* line 259
keep_row(start_date, today_) == start_date >= today_

\* lines 253-259: Start Date becomes a column of datetime.date objects
\* (line 256), then the rows on or after today are kept
FilterFuture ==
    /\ pc = "filter"
    /\ \E t \in TodaySet :
          /\ today' = t
          /\ LET converted == [k \in DOMAIN my_google |->
                    [my_google[k] EXCEPT !.Start_Date =
                        [type |-> "date",
                         ord |-> strptime_mdY(my_google[k].Start_Date.text)]]]
                 Keep(r) == keep_row(r.Start_Date.ord, t)
             IN  my_google' = SelectSeq(converted, Keep)
    /\ pc' = "to_csv"
    /\ UNCHANGED <<df, my_list_2, row_i, date_j, schedule_data, my_schedule,
                   csv, err, arg, ret>>

\* the text to_csv writes for a cell: str(value)
cell_text(cell) == IF cell.type = "date" THEN isoformat(cell.ord) ELSE cell.text

\* line 264: index=False, one line of cell texts per row
ToCsv ==
    /\ pc = "to_csv"
    /\ csv' = [k \in DOMAIN my_google |->
          [Start_Date |-> cell_text(my_google[k].Start_Date),
           Start_Time |-> my_google[k].Start_Time,
           End_Date |-> cell_text(my_google[k].End_Date),
           End_Time |-> my_google[k].End_Time]]
    /\ pc' = "done"
    /\ UNCHANGED <<df, my_list_2, row_i, date_j, schedule_data, my_schedule,
                   my_google, today, err, arg, ret>>

Next ==
    \/ ApplyParse
    \/ ApplyDates
    \/ ExpandAppend
    \/ ExpandNextRow
    \/ BuildSchedule
    \/ LookupTimes
    \/ BuildGoogle
    \/ FilterFuture
    \/ ToCsv

Spec == Init /\ [][Next]_vars

---------------------------------------------------------------------------
(* The two helpers called on their own, on every input within the bounds. *)

InitFn ==
    /\ pc = "fn_parse"
    /\ \E p \in SeqsUpTo(PatternAlphabet, MaxPatLen) :
       \E a \in {Timestamp(AnchorStart + n) : n \in 0..AnchorSpan}
                    \cup {TextCell} :
       \E c \in WeekdayCodes :
          arg = [week_pattern |-> p, start_date |-> a, day_of_week |-> c]
    /\ ret = [active_weeks |-> <<>>, exc |-> "none", dates |-> <<>>]
    /\ df = <<>>
    /\ my_list_2 = <<>>
    /\ row_i = 1
    /\ date_j = 1
    /\ schedule_data = <<>>
    /\ my_schedule = <<>>
    /\ my_google = <<>>
    /\ today = 0
    /\ csv = <<>>
    /\ err = "none"

CallParse ==
    /\ pc = "fn_parse"
    /\ ret' = [ret EXCEPT !.active_weeks = parse_week_pattern(arg.week_pattern)]
    /\ pc' = "fn_dates"
    /\ UNCHANGED <<df, my_list_2, row_i, date_j, schedule_data, my_schedule,
                   my_google, today, csv, err, arg>>

CallDates ==
    /\ pc = "fn_dates"
    /\ LET res == get_dates_for_pattern(arg.start_date, arg.day_of_week,
                                        ret.active_weeks)
       IN  ret' = [ret EXCEPT !.exc = res.exc, !.dates = res.dates]
    /\ pc' = "fn_done"
    /\ UNCHANGED <<df, my_list_2, row_i, date_j, schedule_data, my_schedule,
                   my_google, today, csv, err, arg>>

NextFn == CallParse \/ CallDates

SpecFn == InitFn /\ [][NextFn]_vars

---------------------------------------------------------------------------
(* Properties. *)

Halted == pc \in {"done", "failed"}

\* the slots of a timetable: 1 .. 17
SessionSlots == 1..Len(lecture_array)

\* the 1-based positions of P that hold a digit
DigitPositions(P) ==
    {k \in 1..Len(P) :
        P[k] \in {"0", "1", "2", "3", "4", "5", "6", "7", "8", "9"}}

StrictlyAscending(s) == \A k \in 1..(Len(s) - 1) : s[k] < s[k + 1]

\* the row of my_schedule an event of my_google was built from
Occurrence(event) == my_schedule[event.idx + 1]

\* the index labels of the rows of a frame
Labels(frame) == {frame[k].idx : k \in DOMAIN frame}

\* C1: an occurrence whose start period or end period is outside 1..17 makes
\* the build fail with an out-of-range error, and no event is ever built for
\* it with a time taken from another slot of the table.
C1_OutOfRangePeriodIsAnError ==
    /\ \A k \in DOMAIN my_google :
          /\ Occurrence(my_google[k]).Tu_tiet \in SessionSlots
          /\ Occurrence(my_google[k]).Den_tiet \in SessionSlots
    /\ (Halted /\ \E k \in DOMAIN schedule_data :
                     \/ schedule_data[k].Tu_tiet \notin SessionSlots
                     \/ schedule_data[k].Den_tiet \notin SessionSlots)
          => (pc = "failed" /\ err = "IndexError")

\* C2: when a record of the table fails (its anchor date is not a date), every
\* other record is still expanded: once the script has ended, each record with
\* a valid anchor date has one occurrence per active week in the expansion.
C2_BadRecordDoesNotAbortTheOthers ==
    (Halted /\ \E b \in DOMAIN df : df[b].Ngay_bat_dau.type # "Timestamp")
        => \A g \in DOMAIN df :
              df[g].Ngay_bat_dau.type = "Timestamp"
                  => Cardinality({k \in DOMAIN schedule_data :
                                     schedule_data[k].STT = g})
                       = Cardinality(DigitPositions(df[g].Tuan_hoc))

\* C3: a record whose week pattern holds no digit yields no occurrence, and a
\* table of such records (with valid anchor dates) runs to the end without an
\* error and writes no event.
C3_AllInactivePatternsRunClean ==
    /\ \A k \in DOMAIN schedule_data :
          DigitPositions(df[schedule_data[k].STT].Tuan_hoc) # {}
    /\ (Halted /\ \A k \in DOMAIN df :
                     /\ df[k].Ngay_bat_dau.type = "Timestamp"
                     /\ DigitPositions(df[k].Tuan_hoc) = {})
          => (pc = "done" /\ err = "none" /\ csv = <<>>)

\* C4: for an anchor date on any day of the week and a weekday code in 2..8
\* (2 is Monday, 8 is Sunday), the date of the smallest active week falls on
\* the requested weekday and lies 0 to 6 days on or after the anchor date.
C4_FirstDateOnRequestedWeekday ==
    (pc = "fn_done" /\ ret.exc = "none" /\ ret.dates # <<>>
        /\ arg.day_of_week \in 2..8)
        => /\ isoweekday(ret.dates[1]) = arg.day_of_week - 1
           /\ ret.dates[1] - arg.start_date.ord \in 0..6

C4_Witness ==
    /\ pc = "fn_done"
    /\ ret.exc = "none"
    /\ ret.dates # <<>>
    /\ arg.day_of_week = 2
    /\ isoweekday(arg.start_date.ord) = 3
    /\ ret.dates[1] = arg.start_date.ord + 5

\* C5: the projected dates are one per active week, in ascending week order
\* and strictly increasing; the date of week w is the first date plus
\* 7 * (w - first week), so consecutive dates differ by a multiple of 7 days.
C5_DatesWeeklyAndIncreasing ==
    (pc = "fn_done" /\ ret.exc = "none")
        => /\ Len(ret.dates) = Len(ret.active_weeks)
           /\ StrictlyAscending(ret.dates)
           /\ \A k \in DOMAIN ret.dates :
                 ret.dates[k] = ret.dates[1]
                     + 7 * (ret.active_weeks[k] - ret.active_weeks[1])
           /\ \A k \in 1..(Len(ret.dates) - 1) :
                 (ret.dates[k + 1] - ret.dates[k]) % 7 = 0

C5_Witness ==
    /\ pc = "fn_done"
    /\ ret.exc = "none"
    /\ ret.active_weeks = <<1, 3>>
    /\ Len(ret.dates) = 2
    /\ ret.dates[2] = ret.dates[1] + 14

\* C6: the decoded list holds exactly the 1-based positions of the pattern
\* whose character is a digit, whatever the digit: it is strictly ascending
\* and as long as the pattern has digits.
C6_DecodeGivesDigitPositions ==
    pc \in {"fn_dates", "fn_done"}
        => /\ Range(ret.active_weeks) = DigitPositions(arg.week_pattern)
           /\ Len(ret.active_weeks)
                = Cardinality(DigitPositions(arg.week_pattern))
           /\ StrictlyAscending(ret.active_weeks)

C6_Witness ==
    /\ pc = "fn_dates"
    /\ arg.week_pattern = <<"-", "9", "1">>
    /\ ret.active_weeks = <<2, 3>>

\* C7: the final output holds exactly the events whose occurrence date is on
\* or after today: an occurrence before today is absent, one dated today is
\* present.
C7_OutputIsTodayOrLater ==
    pc \in {"to_csv", "done"}
        => /\ Labels(my_google)
                = {my_schedule[k].idx : k \in
                      {n \in DOMAIN my_schedule : my_schedule[n].Ngay >= today}}
           /\ Len(my_google) = Cardinality(Labels(my_google))
           /\ pc = "done" => Len(csv) = Len(my_google)

C7_Witness ==
    /\ pc = "done"
    /\ \E k \in DOMAIN my_schedule :
          my_schedule[k].Ngay = today /\ my_schedule[k].idx \in Labels(my_google)
    /\ \E k \in DOMAIN my_schedule :
          my_schedule[k].Ngay < today
              /\ my_schedule[k].idx \notin Labels(my_google)
    /\ Len(csv) = Len(my_google)

\* C8: a record is practice exactly when its title contains 'Thực hành' or
\* 'Ứng dụng tin học'; each of its occurrences starts at the start of slot
\* Tu_tiet and ends at the end of slot Den_tiet of the timetable of its kind
\* (slot 4 starts at 09:15 for practice and at 09:40 for a lecture).
C8_KindSelectsTimetable ==
    pc \in {"google", "filter", "to_csv", "done"}
        => \A k \in DOMAIN my_schedule :
              LET r == my_schedule[k]
                  practice == \/ Contains(r.Ten_mon_hoc, MarkerThucHanh)
                              \/ Contains(r.Ten_mon_hoc, MarkerUngDung)
                  table == IF practice THEN practice_array ELSE lecture_array
              IN  /\ r.IsPractice = 1 <=> practice
                  /\ r.IsPractice \in {0, 1}
                  /\ r.Tu_tiet \in SessionSlots
                        => r.Start_time = table[r.Tu_tiet][1]
                  /\ r.Den_tiet \in SessionSlots
                        => r.End_time = table[r.Den_tiet][2]
                  /\ r.Tu_tiet = 4
                        => r.Start_time = IF practice THEN "09:15" ELSE "09:40"

C8_Witness ==
    /\ pc = "done"
    /\ \E k \in DOMAIN my_schedule :
          /\ my_schedule[k].Ten_mon_hoc = MarkerUngDung
          /\ my_schedule[k].Tu_tiet = 4
          /\ my_schedule[k].Start_time = "09:15"
          /\ my_schedule[k].End_time = "11:30"
    /\ \E k \in DOMAIN my_schedule :
          /\ my_schedule[k].Ten_mon_hoc = TitleThucHan
          /\ my_schedule[k].Tu_tiet = 4
          /\ my_schedule[k].Start_time = "09:40"
          /\ my_schedule[k].End_time = "11:55"

\* C9: in every event handed to to_csv, Start Date equals End Date and both
\* are the occurrence's date as the month/day/year text.
C9_StartDateEqualsEndDate ==
    pc = "done"
        => \A k \in DOMAIN csv :
              /\ csv[k].Start_Date = csv[k].End_Date
              /\ csv[k].Start_Date
                    = strftime_mdY(Occurrence(my_google[k]).Ngay)

\* the <<STT, date>> pairs of the first k rows of frame, row after row, each
\* row's dates by ascending week
RECURSIVE ExpectedPairs(_, _)
ExpectedPairs(frame, k) ==
    IF k = 0 THEN <<>>
    ELSE ExpectedPairs(frame, k - 1)
         \o [j \in 1..Len(frame[k].active_weeks) |->
               <<frame[k].row.STT, frame[k].class_dates[j]>>]

\* C10: the expansion is the concatenation, in the table's row order, of each
\* row's occurrences by ascending week, one per active week; the future-only
\* filter keeps the surviving events in that order.
C10_ExpansionInInputOrder ==
    LET pairs == [k \in DOMAIN schedule_data |->
                    <<schedule_data[k].STT, schedule_data[k].Ngay>>]
        n == Len(my_list_2)
    IN  /\ (pc = "expand" /\ row_i <= n)
              => pairs = ExpectedPairs(my_list_2, row_i - 1)
                    \o [j \in 1..(date_j - 1) |->
                          <<my_list_2[row_i].row.STT,
                            my_list_2[row_i].class_dates[j]>>]
        /\ (\/ pc \in {"times", "google", "filter", "to_csv", "done"}
            \/ pc = "expand" /\ row_i > n
            \/ pc = "failed" /\ err \in {"KeyError", "IndexError"})
              => /\ pairs = ExpectedPairs(my_list_2, n)
                 /\ \A g \in DOMAIN df :
                       Cardinality({k \in DOMAIN schedule_data :
                                       schedule_data[k].STT = g})
                         = Len(my_list_2[g].active_weeks)
        /\ pc \in {"to_csv", "done"}
              => \A k \in 1..(Len(my_google) - 1) :
                    my_google[k].idx < my_google[k + 1].idx

C10_Witness ==
    /\ pc = "done"
    /\ Len(df) = 2
    /\ Len(my_list_2[1].active_weeks) = 3
    /\ Len(my_list_2[2].active_weeks) = 2
    /\ Len(schedule_data) = 5
    /\ Len(my_google) = 2
    /\ my_google[1].idx = 2
    /\ my_google[2].idx = 4

=============================================================================
